---- MODULE Spec2Model ----
(***************************************************************************)
(* A model of ticktick_mcp: the session singleton of client.py             *)
(* (TickTickClientSingleton, MCPFriendlyOAuth2._get_user_input) and the    *)
(* helpers of helpers.py (format_response, require_client,                 *)
(* _get_all_tasks_from_ticktick).                                          *)
(*                                                                         *)
(* Spec        callers run one call at a time (the cooperative event loop: *)
(*             get_client() and the aggregator have no suspension point).  *)
(* ThreadSpec  get_client() called from several threads, interleaved       *)
(*             statement by statement (the class holds no lock).           *)
(***************************************************************************)
EXTENDS Naturals, Sequences, FiniteSets, Bags, TLC

\* ------------------------------------------------------------------ bounds
NumThreads == 2
MaxCalls == 3
MaxProjects == 2
MaxTasks == 2

\* --------------------------------------------------------------- constants
\* None, the value of _instance before and after a failed initialization.
NoClient == 0

Threads == 1..NumThreads

\* The five names client.py imports from config and tests with all([...]).
Fields == {"CLIENT_ID", "CLIENT_SECRET", "REDIRECT_URI", "USERNAME", "PASSWORD"}

VARIABLES
    creds,            \* Fields -> BOOLEAN: the config value is a non-empty string
    isatty,           \* sys.stdin.isatty()
    tokenCached,      \* the .token-oauth cache holds a valid token
    _instance,        \* TickTickClientSingleton._instance (NoClient or a handle)
    _initialized,     \* TickTickClientSingleton._initialized
    pc,               \* Threads -> the statement each caller is at
    client,           \* Threads -> the local `client` of __init__ (line 126)
    exc,              \* Threads -> an exception is in flight in the try block
    ret,              \* Threads -> the value get_client() returned
    negotiatorCount,  \* MCPFriendlyOAuth2(...) constructions in __init__
    clientCount,      \* TickTickClient(...) constructions in __init__
    attempts,         \* outcomes of the completed runs of __init__'s body
    calls,            \* get_client() calls started
    completed,        \* get_client() calls that returned
    returned,         \* the values get_client() has returned
    propagated,       \* an exception left get_client()
    inputLog,         \* what each _get_user_input call did
    bound,            \* client.ticktick_client has been assigned
    ticktick_client,  \* the module attribute client.ticktick_client
    toolPc,           \* "idle", or "responded" once a wrapped tool answered
    toolRuns,         \* times the wrapped function ran in this invocation
    toolResult,       \* what the wrapper returned
    aggPc,            \* where _get_all_tasks_from_ticktick is
    aggError,         \* the exception that left it ("none" if none)
    projects_state,   \* its local projects_state
    inbox_id,         \* the inbox_id it read ("None" if absent or not read)
    todo,             \* the project ids the for loop has still to visit
    fetchCount,       \* get_from_project calls per project id in this call
    tasks_in_project, \* the value the current fetch returned
    all_tasks,        \* its local all_tasks
    expected,         \* the records the fetches of this call handed over
    logged,           \* logging.error / logging.warning calls of this call
    reads,            \* the client attributes this call has read
    funcReturned,     \* what the wrapped function returned in this invocation
    setupPc,          \* where setup_auth is
    setupAuth,        \* its MCPFriendlyOAuth2(...): "none", "ok" or "raised"
    setupClient,      \* its TickTickClient(...): "none", "ok" or "raised"
    setupExc,         \* an exception is in flight in its try block
    setupResult       \* what it returned ("raised": an exception left it)

singletonVars == <<_instance, _initialized, negotiatorCount, clientCount, attempts>>
threadVars == <<pc, client, exc, ret, calls, completed, returned, propagated>>
envVars == <<creds, isatty, tokenCached, inputLog>>
toolVars == <<bound, ticktick_client, toolPc, toolRuns, toolResult,
              funcReturned>>
aggVars == <<aggPc, aggError, projects_state, inbox_id, todo, fetchCount,
             tasks_in_project, all_tasks, expected, logged, reads>>
setupVars == <<setupPc, setupAuth, setupClient, setupExc, setupResult>>

\* ------------------------------------------------------------- client.py

\* Mutant: any() in place of all().
AnyCredential == \E f \in Fields : creds[f]

\* all([CLIENT_ID, CLIENT_SECRET, REDIRECT_URI, USERNAME, PASSWORD])
AllCredentials == \A f \in Fields : creds[f]

\* MCPFriendlyOAuth2._get_user_input: raise the RuntimeError that names
\* ticktick-mcp-setup unless stdin is a terminal, else read with input().
\* Mutant: the isatty() test is lost and input() is always called.
GetUserInputNoGuard(tty) ==
    [tty |-> tty, raised |-> FALSE, namesSetup |-> FALSE, read |-> TRUE]

_get_user_input(tty) ==
    IF ~tty
    THEN [tty |-> tty, raised |-> TRUE, namesSetup |-> TRUE, read |-> FALSE]
    ELSE [tty |-> tty, raised |-> FALSE, namesSetup |-> FALSE, read |-> TRUE]

Goto(t, l) == pc' = [pc EXCEPT ![t] = l]

Quiet == \A t \in Threads : pc[t] = "idle"

\* A caller enters get_client(); under Spec only when no other call runs.
BeginCall(t) ==
    /\ pc[t] = "idle"
    /\ calls < MaxCalls
    /\ calls' = calls + 1
    /\ Goto(t, "gc139")
    /\ UNCHANGED <<toolVars, aggVars, setupVars>>
    /\ UNCHANGED <<singletonVars, envVars, client, exc, ret, completed,
                   returned, propagated>>

\* Mutant: get_client returns the stored value without ever calling cls().
GetClientNoInit(t) ==
    /\ pc[t] = "gc139"
    /\ Goto(t, "gc141")
    /\ UNCHANGED <<toolVars, aggVars, setupVars>>
    /\ UNCHANGED <<singletonVars, envVars, client, exc, ret, calls, completed,
                   returned, propagated>>

\* get_client, line 139: if not cls._initialized: cls()
GetClientCheck(t) ==
    /\ pc[t] = "gc139"
    /\ Goto(t, IF _initialized THEN "gc141" ELSE "init106")
    /\ UNCHANGED <<toolVars, aggVars, setupVars>>
    /\ UNCHANGED <<singletonVars, envVars, client, exc, ret, calls, completed,
                   returned, propagated>>

\* __init__, lines 106-109: return if already initialized, else test the
\* credentials.
InitCheck(t) ==
    /\ pc[t] = "init106"
    /\ Goto(t, IF _initialized THEN "gc141"
               ELSE IF AllCredentials THEN "init117" ELSE "init111")
    /\ UNCHANGED <<toolVars, aggVars, setupVars>>
    /\ UNCHANGED <<singletonVars, envVars, client, exc, ret, calls, completed,
                   returned, propagated>>

\* __init__, line 111: _instance = None (credentials missing).
MissingSetNone(t) ==
    /\ pc[t] = "init111"
    /\ _instance' = NoClient
    /\ Goto(t, "init112")
    /\ UNCHANGED <<toolVars, aggVars, setupVars>>
    /\ UNCHANGED <<_initialized, negotiatorCount, clientCount, attempts,
                   envVars, client, exc, ret, calls, completed, returned,
                   propagated>>

\* __init__, lines 112-113: _initialized = True; return.
MissingMarkInitialized(t) ==
    /\ pc[t] = "init112"
    /\ _initialized' = TRUE
    /\ attempts' = Append(attempts, "missing")
    /\ Goto(t, "gc141")
    /\ UNCHANGED <<toolVars, aggVars, setupVars>>
    /\ UNCHANGED <<_instance, negotiatorCount, clientCount, envVars, client,
                   exc, ret, calls, completed, returned, propagated>>

\* Mutant: the negotiator's failure is ignored and the client is constructed
\* without a token.
NegotiateSwallows(t) ==
    /\ pc[t] = "init117"
    /\ negotiatorCount' = negotiatorCount + 1
    /\ Goto(t, "init126")
    /\ inputLog' = IF tokenCached THEN inputLog
                   ELSE inputLog \cup {_get_user_input(isatty)}
    /\ UNCHANGED <<toolVars, aggVars, setupVars>>
    /\ UNCHANGED <<_instance, _initialized, clientCount, attempts, creds,
                   isatty, tokenCached, client, exc, ret, calls, completed,
                   returned, propagated>>

\* __init__, lines 117-122: MCPFriendlyOAuth2(...). The constructor takes the
\* cached token when there is one; otherwise it asks _get_user_input, which
\* raises at once or goes on to the blocking read of line 51.
Negotiate(t) ==
    /\ pc[t] = "init117"
    /\ negotiatorCount' = negotiatorCount + 1
    /\ IF tokenCached
       THEN /\ Goto(t, "init126")
            /\ UNCHANGED <<exc, inputLog>>
       ELSE LET r == _get_user_input(isatty) IN
            /\ inputLog' = inputLog \cup {r}
            /\ IF r.raised
               THEN /\ exc' = [exc EXCEPT ![t] = TRUE]
                    /\ Goto(t, "init131")
               ELSE /\ Goto(t, "input51")
                    /\ UNCHANGED exc
    /\ UNCHANGED <<toolVars, aggVars, setupVars>>
    /\ UNCHANGED <<_instance, _initialized, clientCount, attempts, creds,
                   isatty, tokenCached, client, ret, calls, completed,
                   returned, propagated>>

\* line 51: input(prompt) returns; the token exchange then succeeds (and the
\* token is cached) or raises.
InputRead(t) ==
    /\ pc[t] = "input51"
    /\ \E ok \in BOOLEAN :
         IF ok
         THEN /\ tokenCached' = TRUE
              /\ Goto(t, "init126")
              /\ UNCHANGED exc
         ELSE /\ exc' = [exc EXCEPT ![t] = TRUE]
              /\ Goto(t, "init131")
              /\ UNCHANGED tokenCached
    /\ UNCHANGED <<toolVars, aggVars, setupVars>>
    /\ UNCHANGED <<singletonVars, creds, isatty, inputLog, client, ret, calls,
                   completed, returned, propagated>>

\* __init__, line 126: client = TickTickClient(USERNAME, PASSWORD, auth_client)
\* returns a new handle or raises.
ConstructClient(t) ==
    /\ pc[t] = "init126"
    /\ clientCount' = clientCount + 1
    /\ \E ok \in BOOLEAN :
         IF ok
         THEN /\ client' = [client EXCEPT ![t] = clientCount + 1]
              /\ Goto(t, "init128")
              /\ UNCHANGED exc
         ELSE /\ exc' = [exc EXCEPT ![t] = TRUE]
              /\ Goto(t, "init131")
              /\ UNCHANGED client
    /\ UNCHANGED <<toolVars, aggVars, setupVars>>
    /\ UNCHANGED <<_instance, _initialized, negotiatorCount, attempts, envVars,
                   ret, calls, completed, returned, propagated>>

\* __init__, line 128: TickTickClientSingleton._instance = client
StoreInstance(t) ==
    /\ pc[t] = "init128"
    /\ _instance' = client[t]
    /\ Goto(t, "init134")
    /\ UNCHANGED <<toolVars, aggVars, setupVars>>
    /\ UNCHANGED <<_initialized, negotiatorCount, clientCount, attempts,
                   envVars, client, exc, ret, calls, completed, returned,
                   propagated>>

\* Mutant: an except clause that does not match, so the exception stays in
\* flight.
ExceptNotCaught(t) ==
    /\ pc[t] = "init131"
    /\ Goto(t, "init134")
    /\ UNCHANGED <<toolVars, aggVars, setupVars>>
    /\ UNCHANGED <<singletonVars, envVars, client, exc, ret, calls, completed,
                   returned, propagated>>

\* __init__, lines 129-131: except Exception: _instance = None
ExceptSetNone(t) ==
    /\ pc[t] = "init131"
    /\ exc' = [exc EXCEPT ![t] = FALSE]
    /\ _instance' = NoClient
    /\ Goto(t, "init134")
    /\ UNCHANGED <<toolVars, aggVars, setupVars>>
    /\ UNCHANGED <<_initialized, negotiatorCount, clientCount, attempts,
                   envVars, client, ret, calls, completed, returned,
                   propagated>>

\* Mutant: the finally clause does not set the flag.
FinallyForgetsFlag(t) ==
    /\ pc[t] = "init134"
    /\ attempts' = Append(attempts,
                          IF client[t] # NoClient THEN "ok" ELSE "error")
    /\ client' = [client EXCEPT ![t] = NoClient]
    /\ IF exc[t]
       THEN /\ exc' = [exc EXCEPT ![t] = FALSE]
            /\ propagated' = TRUE
            /\ completed' = completed + 1
            /\ Goto(t, "idle")
       ELSE /\ Goto(t, "gc141")
            /\ UNCHANGED <<exc, propagated, completed>>
    /\ UNCHANGED <<toolVars, aggVars, setupVars>>
    /\ UNCHANGED <<_instance, _initialized, negotiatorCount, clientCount, envVars, ret,
                   calls, returned>>

\* __init__, lines 132-134: finally: _initialized = True. An exception still
\* in flight then leaves __init__ and get_client().
FinallyMarkInitialized(t) ==
    /\ pc[t] = "init134"
    /\ _initialized' = TRUE
    /\ attempts' = Append(attempts,
                          IF client[t] # NoClient THEN "ok" ELSE "error")
    /\ client' = [client EXCEPT ![t] = NoClient]
    /\ IF exc[t]
       THEN /\ exc' = [exc EXCEPT ![t] = FALSE]
            /\ propagated' = TRUE
            /\ completed' = completed + 1
            /\ Goto(t, "idle")
       ELSE /\ Goto(t, "gc141")
            /\ UNCHANGED <<exc, propagated, completed>>
    /\ UNCHANGED <<toolVars, aggVars, setupVars>>
    /\ UNCHANGED <<_instance, negotiatorCount, clientCount, envVars, ret,
                   calls, returned>>

\* Mutant: an unavailable session clears the flag, so the next call retries.
ReturnInstanceRetry(t) ==
    /\ pc[t] = "gc141"
    /\ ret' = [ret EXCEPT ![t] = _instance]
    /\ returned' = returned \cup {_instance}
    /\ completed' = completed + 1
    /\ _initialized' = (_instance # NoClient)
    /\ Goto(t, "ret")
    /\ UNCHANGED <<toolVars, aggVars, setupVars>>
    /\ UNCHANGED <<_instance, negotiatorCount, clientCount, attempts, envVars,
                   client, exc, calls, propagated>>

\* get_client, lines 141-143: return cls._instance
ReturnInstance(t) ==
    /\ pc[t] = "gc141"
    /\ ret' = [ret EXCEPT ![t] = _instance]
    /\ returned' = returned \cup {_instance}
    /\ completed' = completed + 1
    /\ Goto(t, "ret")
    /\ UNCHANGED <<toolVars, aggVars, setupVars>>
    /\ UNCHANGED <<singletonVars, envVars, client, exc, calls, propagated>>

\* The caller drops the borrowed reference.
Discard(t) ==
    /\ pc[t] = "ret"
    /\ ret' = [ret EXCEPT ![t] = NoClient]
    /\ Goto(t, "idle")
    /\ UNCHANGED <<toolVars, aggVars, setupVars>>
    /\ UNCHANGED <<singletonVars, envVars, client, exc, calls, completed,
                   returned, propagated>>

\* The caller of the singleton keeps what get_client() returned as the module
\* attribute the helpers read: client.ticktick_client = get_client().
BindSession(t) ==
    /\ pc[t] = "ret"
    /\ ticktick_client' = ret[t]
    /\ bound' = TRUE
    /\ ret' = [ret EXCEPT ![t] = NoClient]
    /\ Goto(t, "idle")
    /\ UNCHANGED <<singletonVars, envVars, client, exc, calls, completed,
                   returned, propagated, toolPc, toolRuns, toolResult,
                   funcReturned, aggVars, setupVars>>

\* ------------------------------------------------------------ helpers.py

\* Python values as the helpers see them: a type and, for a container, its
\* items. A dict is one task record, held as the single item.
NoneValue == [type |-> "none", items |-> <<>>]
Unset == [type |-> "unset", items |-> <<>>]
TaskRecord(p, k) == [project |-> p, n |-> k]
ListOf(p, n) == [type |-> "list", items |-> [k \in 1..n |-> TaskRecord(p, k)]]
DictOf(p, n) == [type |-> "dict", items |-> [k \in 1..n |-> TaskRecord(p, 0)]]
OtherValue == [type |-> "str", items |-> <<>>]
Raises == [type |-> "raise", items |-> <<>>]

\* What task.get_from_project(p) may do: raise, or return None, a list of up
\* to MaxTasks records, a dict (empty or a record), or a value of another type.
FetchResults(p) ==
    {Raises, NoneValue, OtherValue}
        \cup {ListOf(p, n) : n \in 0..MaxTasks}
        \cup {DictOf(p, n) : n \in 0..1}

\* Python truth of a value: None and empty containers are false.
Truthy(v) ==
    CASE v.type = "none" -> FALSE
      [] v.type \in {"list", "dict"} -> v.items # <<>>
      [] OTHER -> TRUE

\* format_response (lines 12-24): a dict or list is dumped as JSON, None as
\* null, anything else wrapped as {"result": str(value)}.
format_response(v) ==
    CASE v.type \in {"dict", "list"} -> [json |-> v.type, body |-> v.items]
      [] v.type = "none" -> [json |-> "null", body |-> <<>>]
      [] OTHER -> [json |-> "dict", body |-> <<"result">>]

\* {"error": "TickTick client not initialized."}
NotInitializedError ==
    [type |-> "dict", items |-> <<"error: TickTick client not initialized.">>]

\* What a wrapped tool function may return: text a tool built.
FuncResults == {[json |-> "list", body |-> <<>>], [json |-> "null", body |-> <<>>]}

NoResult == [json |-> "none", body |-> <<>>]

ToolsIdle == toolPc = "idle" /\ aggPc = "idle"

\* Mutant: the wrapper logs the missing client and calls the tool anyway.
RequireClientNoReturn(c) == TRUE

\* `if not client.ticktick_client` (lines 32 and 41): the attribute is truthy
\* iff it holds a client.
ClientPresent(c) == c # NoClient

\* Mutant: the wrapper formats the tool's text once more.
WrapperReturnFormatted(r) == [json |-> "dict", body |-> <<"result">>]

\* line 35: return await func(*args, **kwargs)
WrapperReturn(r) == r

\* require_client.wrapper (lines 30-35).
RequireClientCall ==
    /\ Quiet
    /\ bound
    /\ ToolsIdle
    /\ setupPc = "idle"
    /\ toolPc' = "responded"
    /\ IF ~ClientPresent(ticktick_client)
       THEN /\ toolResult' = format_response(NotInitializedError)
            /\ toolRuns' = 0
            /\ UNCHANGED funcReturned
       ELSE /\ toolRuns' = 1
            /\ funcReturned' \in FuncResults
            /\ toolResult' = WrapperReturn(funcReturned')
    /\ UNCHANGED <<singletonVars, threadVars, envVars, setupVars, bound,
                   ticktick_client, aggVars>>

\* The response has been handed to the dispatch layer.
ToolDone ==
    /\ toolPc = "responded"
    /\ toolPc' = "idle"
    /\ toolRuns' = 0
    /\ toolResult' = NoResult
    /\ funcReturned' = NoResult
    /\ UNCHANGED <<singletonVars, threadVars, envVars, setupVars, bound,
                   ticktick_client, aggVars>>

\* What p.get('id') may give for an entry of the projects state: an id, the
\* empty string, or None (no such key).
IdValues == {"P1", "P2", "", "None"}
InboxValues == {"INBOX", "P1", "", "None"}
Snapshots == UNION {[1..n -> [id : IdValues]] : n \in 0..MaxProjects}

IdTruthy(x) == x \notin {"", "None"}

\* Mutant: a list comprehension, which keeps an id once per entry.
StateIdList(ps) ==
    LET ids == {ps[i].id : i \in {j \in DOMAIN ps : IdTruthy(ps[j].id)}}
    IN  [x \in ids |-> Cardinality({i \in DOMAIN ps : ps[i].id = x})]

\* Mutant: the comprehension without its filter.
StateIdsNoFilter(ps) == SetToBag({ps[i].id : i \in DOMAIN ps})

\* line 53: project_ids = {p.get('id') for p in projects_state if p.get('id')}
StateIds(ps) ==
    SetToBag({ps[i].id : i \in {j \in DOMAIN ps : IdTruthy(ps[j].id)}})

\* lines 55-56: if inbox_id: project_ids.add(inbox_id)
AddInbox(ids, inbox) ==
    IF IdTruthy(inbox) /\ ~BagIn(inbox, ids)
    THEN ids (+) SetToBag({inbox})
    ELSE ids

\* Mutant: one try around both reads, so a failing projects read skips the
\* inbox id.
IdsAssembledOneTry(ps, psRaises, ib, ibRaises) ==
    IF psRaises THEN EmptyBag
    ELSE AddInbox(StateIds(ps), IF ibRaises THEN "None" ELSE ib)

\* lines 46-58: projects_state is [] when its read raises; the inbox id is
\* added unless its own read raises.
IdsAssembled(ps, psRaises, ib, ibRaises) ==
    LET ids == StateIds(IF psRaises THEN <<>> ELSE ps)
    IN  IF ibRaises THEN ids ELSE AddInbox(ids, ib)

NoLog == [projects |-> 0, inbox |-> 0, failed |-> 0, unexpected |-> 0]

\* _get_all_tasks_from_ticktick, lines 41-60: the guard, then the identifier
\* set from the projects state and the inbox id, each read under its own try.
AggEnter ==
    /\ Quiet
    /\ bound
    /\ ToolsIdle
    /\ setupPc = "idle"
    /\ IF ~ClientPresent(ticktick_client)
       THEN /\ aggPc' = "raised"
            /\ aggError' = "ConnectionError"
            /\ UNCHANGED <<projects_state, inbox_id, todo, logged, reads>>
       ELSE \E ps \in Snapshots, ib \in InboxValues :
            \E psRaises \in {FALSE} \cup (IF ps = <<>> THEN {TRUE} ELSE {}) :
            \E ibRaises \in {FALSE} \cup (IF ib = "None" THEN {TRUE} ELSE {}) :
               /\ projects_state' = ps
               /\ inbox_id' = ib
               /\ logged' = [logged EXCEPT
                               !.projects = IF psRaises THEN 1 ELSE 0,
                               !.inbox = IF ibRaises THEN 1 ELSE 0]
               /\ reads' = {"projects", "inbox_id"}
               /\ todo' = IdsAssembled(ps, psRaises, ib, ibRaises)
               /\ aggPc' = "loop"
               /\ UNCHANGED aggError
    /\ UNCHANGED <<singletonVars, threadVars, envVars, setupVars, toolVars,
                   fetchCount, tasks_in_project, all_tasks, expected>>

\* The records a fetch hands over: the elements of a list, or the one record.
Contribution(v) ==
    IF v.type \in {"list", "dict"}
    THEN [r \in {v.items[i] : i \in DOMAIN v.items} |->
            Cardinality({i \in DOMAIN v.items : v.items[i] = r})]
    ELSE EmptyBag

\* lines 61-64: the loop takes the next id of the set, in no fixed order, and
\* calls get_from_project(project_id).
AggFetch ==
    /\ aggPc = "loop"
    /\ \E p \in BagToSet(todo) :
         /\ todo' = todo (-) SetToBag({p})
         /\ fetchCount' = fetchCount (+) SetToBag({p})
         /\ \E v \in FetchResults(p) :
              /\ tasks_in_project' = v
              /\ expected' = expected (+) Contribution(v)
    /\ aggPc' = "merge"
    /\ UNCHANGED <<singletonVars, threadVars, envVars, setupVars, toolVars,
                   aggError, projects_state, inbox_id, all_tasks, logged,
                   reads>>

\* Mutant: a dict is extended into the list like a list.
MergedNoDictCase(all, v) ==
    IF Truthy(v) /\ v.type = "list" THEN all \o v.items ELSE all

\* lines 65-71: extend with a list, append a dict, leave anything else.
Merged(all, v) ==
    IF Truthy(v)
    THEN IF v.type = "list" THEN all \o v.items
         ELSE IF v.type = "dict" THEN Append(all, v.items[1])
         ELSE all
    ELSE all

\* Mutant: no try around the fetch, the exception leaves the function.
FetchNotCaught == "raised"

\* lines 72-73: except Exception: log a warning, go on with the next id.
FetchExcept == "loop"

\* lines 65-73 for the value (or exception) of the current fetch.
AggMerge ==
    /\ aggPc = "merge"
    /\ IF tasks_in_project.type = "raise"
       THEN /\ aggPc' = FetchExcept
            /\ aggError' = IF FetchExcept = "raised" THEN "fetch" ELSE aggError
            /\ logged' = [logged EXCEPT !.failed = @ + 1]
            /\ UNCHANGED all_tasks
       ELSE /\ aggPc' = "loop"
            /\ all_tasks' = Merged(all_tasks, tasks_in_project)
            /\ logged' = IF Truthy(tasks_in_project)
                            /\ tasks_in_project.type \notin {"list", "dict"}
                         THEN [logged EXCEPT !.unexpected = @ + 1]
                         ELSE logged
            /\ UNCHANGED aggError
    /\ tasks_in_project' = Unset
    /\ UNCHANGED <<singletonVars, threadVars, envVars, setupVars, toolVars,
                   projects_state, inbox_id, todo, fetchCount, expected,
                   reads>>

\* lines 75-76: the set is exhausted, return all_tasks.
AggLoopEnd ==
    /\ aggPc = "loop"
    /\ todo = EmptyBag
    /\ aggPc' = "return"
    /\ UNCHANGED <<singletonVars, threadVars, envVars, setupVars, toolVars,
                   aggError, projects_state, inbox_id, todo, fetchCount,
                   tasks_in_project, all_tasks, expected, logged, reads>>

\* The call is over (it returned all_tasks or raised); its locals are gone.
AggDone ==
    /\ aggPc \in {"return", "raised"}
    /\ aggPc' = "idle"
    /\ aggError' = "none"
    /\ projects_state' = <<>>
    /\ inbox_id' = "None"
    /\ todo' = EmptyBag
    /\ fetchCount' = EmptyBag
    /\ tasks_in_project' = Unset
    /\ all_tasks' = <<>>
    /\ expected' = EmptyBag
    /\ logged' = NoLog
    /\ reads' = {}
    /\ UNCHANGED <<singletonVars, threadVars, envVars, setupVars, toolVars>>

\* ------------------------------------------------- client.py, setup_auth

SetupGoto(l) == setupPc' = l

\* setup_auth, lines 62-73: return False when a credential is missing, else
\* construct MCPFriendlyOAuth2 as __init__ does.
SetupAuthEnter ==
    /\ Quiet
    /\ ToolsIdle
    /\ setupPc = "idle"
    /\ IF ~AllCredentials
       THEN /\ SetupGoto("returned")
            /\ setupResult' = "False"
            /\ UNCHANGED <<setupAuth, setupExc, inputLog>>
       ELSE IF tokenCached
       THEN /\ SetupGoto("setup77")
            /\ setupAuth' = "ok"
            /\ UNCHANGED <<setupResult, setupExc, inputLog>>
       ELSE LET r == _get_user_input(isatty) IN
            /\ inputLog' = inputLog \cup {r}
            /\ UNCHANGED setupResult
            /\ IF r.raised
               THEN /\ setupAuth' = "raised"
                    /\ setupExc' = TRUE
                    /\ SetupGoto("setup83")
               ELSE /\ SetupGoto("setup51")
                    /\ UNCHANGED <<setupAuth, setupExc>>
    /\ UNCHANGED <<singletonVars, threadVars, creds, isatty, tokenCached,
                   toolVars, aggVars, setupClient>>

\* line 51 under setup_auth: input(prompt) returns; the exchange succeeds
\* (the token is cached) or raises.
SetupInputRead ==
    /\ setupPc = "setup51"
    /\ \E ok \in BOOLEAN :
         IF ok
         THEN /\ tokenCached' = TRUE
              /\ setupAuth' = "ok"
              /\ SetupGoto("setup77")
              /\ UNCHANGED setupExc
         ELSE /\ setupAuth' = "raised"
              /\ setupExc' = TRUE
              /\ SetupGoto("setup83")
              /\ UNCHANGED tokenCached
    /\ UNCHANGED <<singletonVars, threadVars, creds, isatty, inputLog,
                   toolVars, aggVars, setupClient, setupResult>>

\* Mutant: setup_auth keeps the client it built as the singleton's instance.
SetupConstructClientStores ==
    /\ setupPc = "setup77"
    /\ \E ok \in BOOLEAN :
         IF ok
         THEN /\ setupClient' = "ok"
              /\ setupResult' = "True"
              /\ _instance' = clientCount + 1
              /\ _initialized' = TRUE
              /\ clientCount' = clientCount + 1
              /\ SetupGoto("returned")
              /\ UNCHANGED setupExc
         ELSE /\ setupClient' = "raised"
              /\ setupExc' = TRUE
              /\ SetupGoto("setup83")
              /\ UNCHANGED <<setupResult, _instance, _initialized, clientCount>>
    /\ UNCHANGED <<negotiatorCount, attempts, threadVars, envVars, toolVars,
                   aggVars, setupAuth>>

\* setup_auth, lines 76-81: TickTickClient(USERNAME, PASSWORD, auth_client)
\* returns and setup_auth returns True, or it raises.
SetupConstructClient ==
    /\ setupPc = "setup77"
    /\ \E ok \in BOOLEAN :
         IF ok
         THEN /\ setupClient' = "ok"
              /\ setupResult' = "True"
              /\ SetupGoto("returned")
              /\ UNCHANGED setupExc
         ELSE /\ setupClient' = "raised"
              /\ setupExc' = TRUE
              /\ SetupGoto("setup83")
              /\ UNCHANGED setupResult
    /\ UNCHANGED <<singletonVars, threadVars, envVars, toolVars, aggVars,
                   setupAuth>>

\* Mutant: an except clause that does not match; the exception leaves
\* setup_auth.
SetupExceptNotCaught ==
    /\ setupPc = "setup83"
    /\ setupResult' = "raised"
    /\ SetupGoto("returned")
    /\ UNCHANGED <<singletonVars, threadVars, envVars, toolVars, aggVars,
                   setupAuth, setupClient, setupExc>>

\* setup_auth, lines 83-86: except Exception: return False
SetupExcept ==
    /\ setupPc = "setup83"
    /\ setupExc' = FALSE
    /\ setupResult' = "False"
    /\ SetupGoto("returned")
    /\ UNCHANGED <<singletonVars, threadVars, envVars, toolVars, aggVars,
                   setupAuth, setupClient>>

\* The call is over; its locals are gone.
SetupDone ==
    /\ setupPc = "returned"
    /\ setupPc' = "idle"
    /\ setupAuth' = "none"
    /\ setupClient' = "none"
    /\ setupExc' = FALSE
    /\ setupResult' = "none"
    /\ UNCHANGED <<singletonVars, threadVars, envVars, toolVars, aggVars>>

vars == <<creds, isatty, tokenCached, _instance, _initialized, pc, client, exc,
          ret, negotiatorCount, clientCount, attempts, calls, completed,
          returned, propagated, inputLog, bound, ticktick_client, toolPc,
          toolRuns, toolResult, aggPc, aggError, projects_state, inbox_id,
          todo, fetchCount, tasks_in_project, all_tasks, expected, logged,
          reads, funcReturned, setupPc, setupAuth, setupClient, setupExc,
          setupResult>>

Init ==
    /\ creds \in [Fields -> BOOLEAN]
    /\ isatty \in BOOLEAN
    /\ tokenCached \in BOOLEAN
    /\ _instance = NoClient
    /\ _initialized = FALSE
    /\ pc = [t \in Threads |-> "idle"]
    /\ client = [t \in Threads |-> NoClient]
    /\ exc = [t \in Threads |-> FALSE]
    /\ ret = [t \in Threads |-> NoClient]
    /\ negotiatorCount = 0
    /\ clientCount = 0
    /\ attempts = <<>>
    /\ calls = 0
    /\ completed = 0
    /\ returned = {}
    /\ propagated = FALSE
    /\ inputLog = {}
    /\ bound = FALSE
    /\ ticktick_client = NoClient
    /\ toolPc = "idle"
    /\ toolRuns = 0
    /\ toolResult = NoResult
    /\ aggPc = "idle"
    /\ aggError = "none"
    /\ projects_state = <<>>
    /\ inbox_id = "None"
    /\ todo = EmptyBag
    /\ fetchCount = EmptyBag
    /\ tasks_in_project = Unset
    /\ all_tasks = <<>>
    /\ expected = EmptyBag
    /\ logged = NoLog
    /\ reads = {}
    /\ funcReturned = NoResult
    /\ setupPc = "idle"
    /\ setupAuth = "none"
    /\ setupClient = "none"
    /\ setupExc = FALSE
    /\ setupResult = "none"

Step(t) ==
    \/ GetClientCheck(t)
    \/ InitCheck(t)
    \/ MissingSetNone(t)
    \/ MissingMarkInitialized(t)
    \/ Negotiate(t)
    \/ InputRead(t)
    \/ ConstructClient(t)
    \/ StoreInstance(t)
    \/ ExceptSetNone(t)
    \/ FinallyMarkInitialized(t)
    \/ ReturnInstance(t)
    \/ Discard(t)
    \/ BindSession(t)

\* One call at a time.
Next ==
    \/ \E t \in Threads : Quiet /\ ToolsIdle /\ setupPc = "idle" /\ BeginCall(t)
    \/ \E t \in Threads : Step(t)
    \/ RequireClientCall
    \/ ToolDone
    \/ AggEnter
    \/ AggFetch
    \/ AggMerge
    \/ AggLoopEnd
    \/ AggDone
    \/ SetupAuthEnter
    \/ SetupInputRead
    \/ SetupConstructClient
    \/ SetupExcept
    \/ SetupDone

Spec == Init /\ [][Next]_vars

\* Calls from several threads, interleaved statement by statement.
ThreadNext ==
    \/ \E t \in Threads : BeginCall(t)
    \/ \E t \in Threads : Step(t)

ThreadSpec == Init /\ [][ThreadNext]_vars

\* ------------------------------------------------------------ properties

SomeCredentialMissing == \E f \in Fields : ~creds[f]

SeqToBag(q) ==
    [r \in {q[i] : i \in DOMAIN q} |-> Cardinality({i \in DOMAIN q : q[i] = r})]

\* The identifiers of the project-state snapshot plus the default-project
\* identifier, empty and absent ones left out.
IdentifierSet ==
    {x \in {projects_state[i].id : i \in DOMAIN projects_state} \cup {inbox_id} :
        x \notin {"", "None"}}

\* C1: with all five credentials present and the first construction
\* succeeding, however many sequential get_client() calls have been made, the
\* negotiator and the client were each constructed exactly once and every call
\* returned that one handle.
C1_IdempotentSingleton ==
    (~SomeCredentialMissing /\ attempts # <<>> /\ attempts[1] = "ok") =>
        /\ negotiatorCount = 1
        /\ clientCount = 1
        /\ _instance # NoClient
        /\ returned \subseteq {_instance}
        /\ ~propagated

C1_Witness ==
    /\ ~SomeCredentialMissing
    /\ attempts = <<"ok">>
    /\ completed = MaxCalls
    /\ completed >= 2
    /\ negotiatorCount = 1
    /\ clientCount = 1
    /\ returned = {_instance}

\* C2: concurrent first-time callers never both execute the negotiation and
\* construction sequence: it is entered at most once, and by one caller.
C2_InitMutualExclusion ==
    /\ negotiatorCount <= 1
    /\ Cardinality({t \in Threads :
           pc[t] \in {"init117", "input51", "init126", "init128", "init131",
                      "init134"}}) <= 1

\* C3: once an initialization attempt has completed, no later step runs
\* another attempt, constructs a negotiator or a client, or changes the stored
\* result, and every later call returns that stored result.
C3_NoReinitialization ==
    [][attempts # <<>> =>
          /\ attempts' = attempts
          /\ _initialized /\ _initialized'
          /\ negotiatorCount' = negotiatorCount
          /\ clientCount' = clientCount
          /\ _instance' = _instance
          /\ returned' \subseteq {_instance}]_vars

C3_Witness ==
    /\ attempts = <<"error">>
    /\ _initialized
    /\ completed >= 2
    /\ returned = {NoClient}
    /\ negotiatorCount = 1

\* C4: with any of the five credentials empty or absent, get_client() returns
\* None, the attempt is marked completed, and no negotiator or client is ever
\* constructed (no input is asked for, no exception leaves the call).
C4_MissingCredentialGuard ==
    SomeCredentialMissing =>
        /\ negotiatorCount = 0
        /\ clientCount = 0
        /\ inputLog = {}
        /\ _instance = NoClient
        /\ returned \subseteq {NoClient}
        /\ ~propagated
        /\ completed >= 1 => (_initialized /\ attempts[1] = "missing")
        /\ \A t \in Threads :
             pc[t] \notin {"init117", "input51", "init126", "init128"}

C4_Witness ==
    /\ creds = [f \in Fields |-> f # "REDIRECT_URI"]
    /\ completed >= 2
    /\ returned = {NoClient}
    /\ _initialized
    /\ negotiatorCount = 0

\* C5: an exception raised by the negotiator's or the client's construction
\* never leaves get_client(): the call returns None and the attempt is marked
\* completed.
C5_InitNeverFaults ==
    /\ ~propagated
    /\ (attempts # <<>> /\ attempts[1] = "error") =>
          /\ _initialized
          /\ _instance = NoClient
          /\ returned \subseteq {NoClient}
          /\ \A t \in Threads : ~exc[t]

C5_Witness ==
    /\ attempts = <<"error">>
    /\ negotiatorCount = 1
    /\ clientCount = 1
    /\ completed >= 1
    /\ returned = {NoClient}

\* C6: when stdin is not a terminal, _get_user_input raises at once with the
\* message naming the setup step and the blocking read is never reached; the
\* blocking read is reached only on a terminal.
C6_NonInteractiveGuard ==
    /\ \A r \in inputLog :
         /\ ~r.tty => (r.raised /\ r.namesSetup /\ ~r.read)
         /\ r.read => (r.tty /\ ~r.raised)
    /\ (\E t \in Threads : pc[t] = "input51") => isatty
    /\ ~isatty => \A t \in Threads :
                     pc[t] = "init131" /\ clientCount = 0 /\ inputLog # {}
                        => exc[t]

C6_Witness ==
    /\ ~isatty
    /\ \E r \in inputLog : r.raised /\ r.namesSetup /\ ~r.read
    /\ attempts = <<"error">>
    /\ clientCount = 0

\* C7: with a ready session the aggregator never raises, a fetch that raises
\* or returns anything but a list or a record leaves the accumulated result
\* as it was, and at the return every identifier of the set has been fetched.
C7_PartialFailureIsolation ==
    [][/\ aggError' # "fetch"
       /\ (aggPc' = "raised" => ticktick_client = NoClient)
       /\ (aggPc = "merge"
             /\ (tasks_in_project.type \notin {"list", "dict"}
                   \/ tasks_in_project.items = <<>>))
            => (all_tasks' = all_tasks /\ aggPc' = "loop")
       /\ aggPc' = "return" =>
            \A x \in IdentifierSet' : CopiesIn(x, fetchCount') >= 1]_vars

\* A raises, B is empty, C returns two records: exactly those two.
C7_Witness ==
    /\ aggPc = "return"
    /\ BagCardinality(fetchCount) = 3
    /\ logged.failed = 1
    /\ logged.unexpected = 0
    /\ all_tasks = <<[project |-> "INBOX", n |-> 1], [project |-> "INBOX", n |-> 2]>>

\* C8: between fetches and at the return, the accumulated sequence holds, as
\* a multiset, exactly the elements of every list fetched and every single
\* record fetched, and nothing else.
C8_MergedIsNormalisedUnion ==
    aggPc \in {"loop", "return"} => SeqToBag(all_tasks) = expected

C8_Witness ==
    /\ aggPc = "return"
    /\ Len(all_tasks) = 3
    /\ \E i \in DOMAIN all_tasks : all_tasks[i] = [project |-> "P1", n |-> 0]
    /\ \E i \in DOMAIN all_tasks : all_tasks[i] = [project |-> "P2", n |-> 2]
    /\ logged.failed = 0

\* C9: a fetch is issued only for identifiers of the snapshot or the default
\* project, never twice for one identifier, and at the return for every one
\* of them.
C9_DefaultProjectDedup ==
    /\ \A x \in BagToSet(fetchCount) :
         x \in IdentifierSet /\ CopiesIn(x, fetchCount) = 1
    /\ aggPc = "return" => BagToSet(fetchCount) = IdentifierSet

C9_Witness ==
    /\ aggPc = "return"
    /\ projects_state = <<[id |-> "P1"], [id |-> "P1"]>>
    /\ inbox_id = "P1"
    /\ fetchCount = SetToBag({"P1"})

\* C10 as stated: with the session unavailable, the aggregator and a
\* require_client-wrapped tool both yield the structured error payload and no
\* exception.
C10_AlwaysErrorPayload ==
    ticktick_client = NoClient =>
        /\ aggPc # "raised"
        /\ aggError = "none"
        /\ toolPc = "responded" =>
             toolResult = [json |-> "dict",
                           body |-> <<"error: TickTick client not initialized.">>]

\* C10 amended: with the session unavailable, a require_client-wrapped tool
\* returns the structured error payload without running the tool, and the
\* aggregator raises ConnectionError having fetched and merged nothing.
C10_UnavailableSessionGuard ==
    (bound /\ ticktick_client = NoClient) =>
        /\ toolPc = "responded" =>
             /\ toolResult = [json |-> "dict",
                              body |-> <<"error: TickTick client not initialized.">>]
             /\ toolRuns = 0
        /\ aggPc # "idle" =>
             /\ aggPc = "raised"
             /\ aggError = "ConnectionError"
             /\ all_tasks = <<>>
             /\ fetchCount = EmptyBag
             /\ logged = NoLog

C10_Witness ==
    /\ bound
    /\ ticktick_client = NoClient
    /\ aggPc = "raised"
    /\ aggError = "ConnectionError"
    /\ attempts = <<"error">>

\* C11: setup_auth never raises and reports a boolean. It returns True only
\* if both the negotiator and the remote client were constructed without
\* error; it returns False when a credential is missing, having constructed
\* nothing, and when either construction raises.
C11_SetupAuthReportsBoolean ==
    setupPc = "returned" =>
        /\ setupResult \in {"True", "False"}
        /\ ~setupExc
        /\ setupResult = "True" <=> (setupAuth = "ok" /\ setupClient = "ok")
        /\ SomeCredentialMissing =>
             /\ setupResult = "False"
             /\ setupAuth = "none"
             /\ setupClient = "none"
        /\ (setupAuth = "raised" \/ setupClient = "raised") =>
             setupResult = "False"

C11_Witness ==
    /\ setupPc = "returned"
    /\ setupAuth = "ok"
    /\ setupClient = "raised"
    /\ setupResult = "False"

\* C12: for any interleaving of concurrent and later get_client() calls,
\* every call returns the same result: the values handed to callers never
\* differ.
C12_AllCallersOneOutcome == Cardinality(returned) <= 1

\* C13: once _instance holds a remote-client handle, no step replaces it by
\* another handle or resets it to None.
C13_HandleIdentityStable ==
    [][_instance # NoClient => _instance' = _instance]_vars

\* C14: entered with no ready session, _get_all_tasks_from_ticktick raises
\* the 'client not initialized' error at once: the projects state and the
\* inbox id are not read and no project is fetched.
C14_PreconditionNoPartialWork ==
    (aggPc # "idle" /\ ticktick_client = NoClient) =>
        /\ aggPc = "raised"
        /\ aggError = "ConnectionError"
        /\ reads = {}
        /\ fetchCount = EmptyBag
        /\ todo = EmptyBag
        /\ tasks_in_project = Unset

C14_Witness ==
    /\ aggPc = "raised"
    /\ ticktick_client = NoClient
    /\ attempts = <<"missing">>
    /\ reads = {}

\* C15: the two reads are guarded independently. When the projects read
\* raises, the inbox id is still read and fetched; when the inbox read raises,
\* every id of the projects state is still fetched; the aggregator returns
\* without raising in both cases.
C15_IndependentGuards ==
    (aggPc = "return" /\ (logged.projects = 1 \/ logged.inbox = 1)) =>
        /\ aggError = "none"
        /\ reads = {"projects", "inbox_id"}
        /\ (logged.projects = 1 /\ logged.inbox = 0) =>
             BagToSet(fetchCount) = {x \in {inbox_id} : IdTruthy(x)}
        /\ (logged.inbox = 1 /\ logged.projects = 0) =>
             BagToSet(fetchCount) =
                 {x \in {projects_state[i].id : i \in DOMAIN projects_state} :
                    IdTruthy(x)}

C15_Witness ==
    /\ aggPc = "return"
    /\ logged.projects = 1
    /\ logged.inbox = 0
    /\ inbox_id = "INBOX"
    /\ fetchCount = SetToBag({"INBOX"})

\* C16: a wrapped tool invoked with no session returns the error payload and
\* the tool function is not started; invoked with a session, the tool
\* function runs exactly once and what it returned is returned unchanged.
C16_SessionGuardOnTools ==
    toolPc = "responded" =>
        IF ticktick_client = NoClient
        THEN /\ toolResult = [json |-> "dict",
                              body |-> <<"error: TickTick client not initialized.">>]
             /\ toolRuns = 0
             /\ funcReturned = NoResult
        ELSE /\ toolRuns = 1
             /\ funcReturned \in FuncResults
             /\ toolResult = funcReturned

C16_Witness ==
    /\ toolPc = "responded"
    /\ ticktick_client # NoClient
    /\ toolRuns = 1
    /\ toolResult = [json |-> "list", body |-> <<>>]
    /\ funcReturned = toolResult

C18_ReadyImpliesFullyConstructed ==
    /\ _instance # NoClient =>
         /\ tokenCached
         /\ negotiatorCount = 1
         /\ clientCount = 1
         /\ _instance = clientCount
         /\ attempts \in {<<>>, <<"ok">>}
         /\ attempts = <<>> => \E t \in Threads : pc[t] = "init134"
    /\ attempts = <<"error">> =>
         /\ _instance = NoClient
         /\ _initialized
    /\ \A h \in returned :
         /\ h \in {NoClient, _instance}
         /\ _initialized
         /\ h # NoClient => attempts = <<"ok">>

C18_Witness ==
    /\ attempts = <<"error">>
    /\ tokenCached
    /\ negotiatorCount = 1
    /\ clientCount = 1
    /\ returned = {NoClient}

\* C19: no step of setup_auth changes _instance, _initialized or the record
\* of initialization attempts, so it neither counts as the attempt nor
\* repairs a failed one: after a failed attempt get_client() keeps returning
\* None whatever setup_auth returned.
C19_SetupAuthLeavesSingleton ==
    [][/\ (setupPc # "idle" \/ setupPc' # "idle") =>
            /\ _instance' = _instance
            /\ _initialized' = _initialized
            /\ attempts' = attempts
            /\ returned' = returned
       /\ (_initialized /\ _instance = NoClient) =>
            /\ _instance' = NoClient
            /\ _initialized'
            /\ returned' \subseteq {NoClient}]_vars

C19_Witness ==
    /\ setupPc = "returned"
    /\ setupResult = "True"
    /\ attempts = <<"error">>
    /\ _instance = NoClient
    /\ _initialized

\* C20: no fetch is issued for an empty or absent project id: such ids never
\* enter the identifier set, and when the snapshot holds no usable id and
\* there is no inbox id, nothing is fetched and the result is empty.
C20_NoFetchForEmptyIdentifier ==
    /\ \A x \in BagToSet(todo) \cup BagToSet(fetchCount) : IdTruthy(x)
    /\ (/\ aggPc = "return"
        /\ \A i \in DOMAIN projects_state : ~IdTruthy(projects_state[i].id)
        /\ ~IdTruthy(inbox_id)) =>
           /\ fetchCount = EmptyBag
           /\ all_tasks = <<>>

C20_Witness ==
    /\ aggPc = "return"
    /\ projects_state = <<[id |-> ""], [id |-> "None"]>>
    /\ inbox_id = ""
    /\ fetchCount = EmptyBag
    /\ all_tasks = <<>>

====
